---- MODULE Spec2Model ----
(***************************************************************************)
(* A model of vistransits/tsignals.py: the catalogue filter, the emission   *)
(* and transmission signal-to-noise pipelines, their normalisation against  *)
(* a reference planet, the ranking and the output file.                     *)
(*                                                                          *)
(* Numbers.  The program computes in IEEE doubles through numpy.  The model *)
(* keeps the special values (nan, 0, +inf) and replaces the finite positive *)
(* doubles by a coarse logarithmic grid: Fin(e) stands for 2^(e/2).         *)
(* Products, quotients and powers are exact on the grid (exponents add),    *)
(* the square root and exp(x)-1 round to the grid, as floating point rounds *)
(* to its own.  Magnitudes (KS, V) are signed quantities; Mag(m) stands for *)
(* m grid steps of 2.5*log10(2^(1/2)) mag, which makes 2.5*log10(Fin(e))    *)
(* equal to Mag(e) and 10**(-Mag(m)/2.5) equal to Fin(-m).  All catalogue   *)
(* quantities of the model are >= 0, so no negative number other than a     *)
(* magnitude occurs.                                                        *)
(***************************************************************************)
EXTENDS Integers, Sequences, FiniteSets, TLC

VARIABLES table, ofile, res

vars == <<table, ofile, res>>

---------------------------------------------------------------------------
(* Floating point values                                                    *)

Fin(n) == [k |-> "fin", e |-> n]
Mag(m) == [k |-> "mag", e |-> m]
NaN == [k |-> "nan", e |-> 0]
Zero == [k |-> "zero", e |-> 0]
Inf == [k |-> "inf", e |-> 0]
NInf == [k |-> "ninf", e |-> 0]

\* np.isfinite( x )
isfinite(x) == x.k \in {"fin", "zero", "mag"}

\* x > 0 (nan > 0 is False)
gt0(x) == x.k \in {"fin", "inf"}

\* a * b
Mul(a, b) ==
    IF a.k = "nan" \/ b.k = "nan" THEN NaN
    ELSE IF (a.k = "zero" /\ b.k = "inf") \/ (a.k = "inf" /\ b.k = "zero") THEN NaN
    ELSE IF a.k = "zero" \/ b.k = "zero" THEN Zero
    ELSE IF a.k = "inf" \/ b.k = "inf" THEN Inf
    ELSE Fin(a.e + b.e)

\* a / b (numpy: x/0 is inf, 0/0 and inf/inf are nan)
Div(a, b) ==
    IF a.k = "nan" \/ b.k = "nan" THEN NaN
    ELSE IF (a.k = "zero" /\ b.k = "zero") \/ (a.k = "inf" /\ b.k = "inf") THEN NaN
    ELSE IF a.k = "zero" \/ b.k = "inf" THEN Zero
    ELSE IF a.k = "inf" \/ b.k = "zero" THEN Inf
    ELSE Fin(a.e - b.e)

\* a ** n for a constant n >= 1
Pow(a, n) == IF a.k = "fin" THEN Fin(n * a.e) ELSE a

\* np.sqrt( a ), rounded down to the grid
Sqrt(a) == IF a.k = "fin" THEN Fin(a.e \div 2) ELSE a

\* 2 * log2( exp( 2^(e/2) ) - 1 ) rounded, for the arguments where it is
\* neither e itself (small x: exp(x)-1 = x) nor an overflow
ExpM1Tab ==
    <<-2, -1, 0, 2, 3, 5, 8, 11, 16, 23, 33, 46, 65, 92, 131, 185, 261, 369,
      522, 739, 1045, 1477>>

\* np.exp( x ) - 1 ; exp overflows to inf above x = 709
ExpM1(x) ==
    IF x.k # "fin" THEN x
    ELSE IF x.e <= -4 THEN x
    ELSE IF x.e >= 19 THEN Inf
    ELSE Fin(ExpM1Tab[x.e + 4])

\* 2.5 * np.log10( x )
Log10x2p5(x) ==
    CASE x.k = "fin" -> Mag(x.e)
      [] x.k = "zero" -> NInf
      [] x.k = "inf" -> Inf
      [] OTHER -> NaN

\* a - b for a magnitude a (finite or nan) and b = 2.5*log10( ratio )
MagMinus(a, b) ==
    CASE a.k = "nan" \/ b.k = "nan" -> NaN
      [] b.k = "inf" -> NInf
      [] b.k = "ninf" -> Inf
      [] OTHER -> Mag(a.e - b.e)

\* 10**( -mag/2.5 )
FluxOfMag(mag) ==
    CASE mag.k = "mag" -> Fin(0 - mag.e)
      [] mag.k = "inf" -> Zero
      [] mag.k = "ninf" -> Inf
      [] OTHER -> NaN

---------------------------------------------------------------------------
(* Module constants, as grid exponents round( 2*log2( value ) )             *)

G == -68
HPLANCK == -220
C == 56
KB == -152
RGAS == 6
RSUN == 59
RJUP == 52
MJUP == 181
AU2M == 74
MUJUP == -18
\* the literals 1e6, 2.2e-6, 0.6e-6 and 2
MICRON == 40
W22 == -38
W06 == -41
TWO == 2

---------------------------------------------------------------------------
(* Physical model                                                           *)

\* planck( wav, temp )
planck(wav, temp) ==
    LET term1 == Div(Mul(Mul(Fin(TWO), Fin(HPLANCK)), Pow(Fin(C), 2)), Pow(wav, 5))
        term2 == ExpM1(Div(Div(Div(Mul(Fin(HPLANCK), Fin(C)), Fin(KB)), wav), temp))
    IN  Div(term1, term2)

\* Teq( table ), for one row
Teq(row) ==
    LET Rstar == Mul(row.RSTAR, Fin(RSUN))
        a == Mul(row.A, Fin(AU2M))
        Tstar == row.TEFF
    IN  Mul(Sqrt(Div(Div(Rstar, Fin(TWO)), a)), Tstar)

---------------------------------------------------------------------------
(* The catalogue: exoplanets_transiting.fits as an atpy table.  A table is   *)
(* a sequence of rows; MASScol tells whether it has a numeric MASS column    *)
(* (t.MASS raises when it has not).                                          *)

MaxRows == 3

Base ==
    [NAME |-> "WASP-19 b", RSTAR |-> Fin(0), R |-> Fin(1), A |-> Fin(-12),
     TEFF |-> Fin(25), KS |-> Mag(28), V |-> Mag(33),
     MASS |-> Fin(0), MSINI |-> Fin(0)]

\* the planets a catalogue of the model is drawn from, in catalogue order
Roster ==
    << Base,
       [Base EXCEPT !.NAME = "noK", !.KS = NaN, !.V = Mag(30), !.R = Fin(2)],
       [Base EXCEPT !.NAME = "msini", !.MASS = NaN, !.MSINI = Fin(-2),
                    !.TEFF = Fin(24)],
       [Base EXCEPT !.NAME = "zeroR", !.R = Zero],
       [Base EXCEPT !.NAME = "noV", !.V = NaN],
       [Base EXCEPT !.NAME = "zeroM", !.MASS = Zero, !.MSINI = NaN,
                    !.A = Fin(-10)] >>

RECURSIVE Pick(_, _)
Pick(i, S) ==
    IF i > Len(Roster) THEN <<>>
    ELSE (IF i \in S THEN <<Roster[i]>> ELSE <<>>) \o Pick(i + 1, S)

\* a table without a MASS column carries no MASS values
NoMASS(rows) == [i \in 1..Len(rows) |-> [rows[i] EXCEPT !.MASS = NaN]]

RowSeqs == {Pick(1, S) : S \in {X \in SUBSET (1..Len(Roster)) : Cardinality(X) <= MaxRows}}

\* the tables download_data() can leave in TR_TABLE
Catalogs ==
    {[exists |-> TRUE, MASScol |-> TRUE, rows |-> r] : r \in RowSeqs}
    \cup {[exists |-> TRUE, MASScol |-> FALSE, rows |-> NoMASS(r)] : r \in RowSeqs}

\* the rows the catalogues of a direct call of filter_table are drawn from:
\* Base with one always-required field undefined (or R zero), with every
\* combination of the magnitudes, with every combination of the masses
MaxFilterRows == 2

FilterRows ==
    {[Base EXCEPT !.RSTAR = NaN], [Base EXCEPT !.R = NaN], [Base EXCEPT !.R = Zero],
     [Base EXCEPT !.A = NaN], [Base EXCEPT !.TEFF = NaN]}
    \cup {[Base EXCEPT !.KS = ks, !.V = v] : ks \in {NaN, Mag(28)}, v \in {NaN, Mag(33)}}
    \cup {[Base EXCEPT !.MASS = m, !.MSINI = ms] :
             m \in {NaN, Zero, Fin(0)}, ms \in {NaN, Zero, Fin(-2)}}

PlanetName == <<"p1", "p2", "p3", "p4">>

FilterRowSeqs ==
    UNION {{[i \in 1..k |-> [f[i] EXCEPT !.NAME = PlanetName[i]]] : f \in [1..k -> FilterRows]} :
             k \in 0..MaxFilterRows}

FilterCatalogs ==
    {[exists |-> TRUE, MASScol |-> TRUE, rows |-> r] : r \in FilterRowSeqs}
    \cup {[exists |-> TRUE, MASScol |-> FALSE, rows |-> NoMASS(r)] : r \in FilterRowSeqs}

NoFile == [exists |-> FALSE, MASScol |-> FALSE, rows |-> <<>>]

RemoveAt(s, i) == [j \in 1..(Len(s) - 1) |-> IF j < i THEN s[j] ELSE s[j + 1]]

\* what the remote source serves at a later download: the cached catalogue,
\* or the cached catalogue with one planet retracted
Snapshots(tab) ==
    {tab} \cup {[tab EXCEPT !.rows = RemoveAt(tab.rows, i)] : i \in 1..Len(tab.rows)}

Names == {Roster[i].NAME : i \in 1..Len(Roster)} \cup {"absent"}

\* wavelengths in micron: 0.7 and 2.2
Wavs == {Fin(-1), Fin(2)}

---------------------------------------------------------------------------
(* filter_table                                                             *)

\* a slip: the missing cache file not tested
NeedsDownload_FlagOnly(download_latest) == download_latest

\* the condition of the download, line 248
NeedsDownload(download_latest) == (~table.exists) \/ download_latest

\* t = atpy.Table( TR_TABLE ) after the download, if any
TableRead(download_latest, fresh) ==
    IF NeedsDownload(download_latest) THEN fresh ELSE table

\* the calls of filter_table that touch the file system, in order
FilterLog(download_latest) ==
    (IF NeedsDownload(download_latest) THEN <<"download">> ELSE <<>>) \o <<"read">>

\* a slip: the masses tested for being finite only
MassKept_NoSign(tab, row) ==
    IF tab.MASScol
    THEN isfinite(row.MSINI) \/ isfinite(row.MASS)
    ELSE isfinite(row.MSINI)

\* the mass condition of the transmission filter: with a MASS column
\* MSINI or MASS finite and positive, without one (the except branch) MSINI
MassKept(tab, row) ==
    IF tab.MASScol
    THEN (isfinite(row.MSINI) /\ gt0(row.MSINI)) \/ (isfinite(row.MASS) /\ gt0(row.MASS))
    ELSE isfinite(row.MSINI) /\ gt0(row.MSINI)

\* the predicate the chain of t.where() calls keeps a row by
Keeps(tab, sigtype, row) ==
    /\ isfinite(row.RSTAR)
    /\ isfinite(row.R)
    /\ isfinite(row.A)
    /\ isfinite(row.TEFF)
    /\ (sigtype = "emission" => isfinite(row.KS))
    /\ (sigtype = "transmission" =>
            /\ isfinite(row.KS) \/ isfinite(row.V)
            /\ MassKept(tab, row))

\* the rows filter_table( sigtype ) returns of the table read: t.where()
\* keeps the order
Filtered(tab, sigtype) == SelectSeq(tab.rows, LAMBDA row : Keeps(tab, sigtype, row))

---------------------------------------------------------------------------
(* numpy array operations                                                   *)

\* a slip: the first row taken for the reference
RefRows_First(t, obj_ref) == IF t = <<>> THEN <<>> ELSE <<t[1]>>

\* x[ii] for the mask ii = ( t.NAME==obj_ref ): the rows named obj_ref
RefRows(t, obj_ref) == SelectSeq(t, LAMBDA row : row.NAME = obj_ref)

\* whether the shapes (n,) and (m,) broadcast
Broadcasts(n, m) == n = m \/ n = 1 \/ m = 1

\* x / y elementwise, with broadcasting of a length-1 operand
ArrayDiv(x, y) ==
    IF Len(y) = 1 THEN [i \in 1..Len(x) |-> Div(x[i], y[1])]
    ELSE IF Len(x) = 1 THEN [i \in 1..Len(y) |-> Div(x[1], y[i])]
    ELSE [i \in 1..Len(x) |-> Div(x[i], y[i])]

\* the order np.argsort sorts doubles by: nan after everything else
Rank3(x) == CASE x.k = "zero" -> 0 [] x.k = "fin" -> 1 [] x.k = "inf" -> 2 [] OTHER -> 3

SortsBefore(a, b) ==
    \/ Rank3(a) < Rank3(b)
    \/ a.k = "fin" /\ b.k = "fin" /\ a.e < b.e

\* the permutations of 1..k
Perms(k) == {s \in [1..k -> 1..k] : \A i, j \in 1..k : i # j => s[i] # s[j]}

PermsUpTo == [k \in 0..(MaxRows + 1) |-> Perms(k)]

\* np.argsort( x ): the default kind is quicksort, which is not stable, so
\* every ascending arrangement of equal keys is a possible result
Argsorts(x) ==
    {s \in PermsUpTo[Len(x)] :
        \A i \in 1..(Len(x) - 1) : ~SortsBefore(x[s[i + 1]], x[s[i]])}

\* s[::-1]
Reversed(s) == [j \in 1..Len(s) |-> s[Len(s) + 1 - j]]

---------------------------------------------------------------------------
(* emission                                                                 *)

\* wav / 1e6
Metres(wav) == Div(wav, Fin(MICRON))

\* fratio of one row at wav (metres), lines 47-50
fratio(row, wav) ==
    LET bratio == Div(planck(wav, Teq(row)), planck(wav, row.TEFF))
    IN  Mul(bratio, Pow(Div(Mul(row.R, Fin(RJUP)), Mul(row.RSTAR, Fin(RSUN))), 2))

\* snr_unnorm of one row at wav (metres), lines 54-69
snr_unnorm(row, wav) ==
    LET kratio == Div(planck(wav, row.TEFF), planck(Fin(W22), row.TEFF))
        mag_star == MagMinus(row.KS, Log10x2p5(kratio))
        flux_star_unnorm == FluxOfMag(mag_star)
    IN  Mul(Sqrt(flux_star_unnorm), fratio(row, wav))

\* a slip: the reference flux taken from the V magnitude
snr_ref_FromV(row, wav_ref) ==
    LET bratio_ref == Div(planck(wav_ref, Teq(row)), planck(wav_ref, row.TEFF))
        fratio_ref == Mul(bratio_ref,
                          Pow(Div(Mul(row.R, Fin(RJUP)), Mul(row.RSTAR, Fin(RSUN))), 2))
        kratio_ref == Div(planck(wav_ref, row.TEFF), planck(Fin(W22), row.TEFF))
        mag_ref == MagMinus(row.V, Log10x2p5(kratio_ref))
        flux_ref == FluxOfMag(mag_ref)
    IN  Mul(Sqrt(flux_ref), fratio_ref)

\* a slip: the reference flux taken without its square root
snr_ref_NoSqrt(row, wav_ref) ==
    LET bratio_ref == Div(planck(wav_ref, Teq(row)), planck(wav_ref, row.TEFF))
        fratio_ref == Mul(bratio_ref,
                          Pow(Div(Mul(row.R, Fin(RJUP)), Mul(row.RSTAR, Fin(RSUN))), 2))
        kratio_ref == Div(planck(wav_ref, row.TEFF), planck(Fin(W22), row.TEFF))
        mag_ref == MagMinus(row.KS, Log10x2p5(kratio_ref))
        flux_ref == FluxOfMag(mag_ref)
    IN  Mul(flux_ref, fratio_ref)

\* snr_ref of one reference row at wav_ref (metres), lines 77-82
snr_ref(row, wav_ref) ==
    LET bratio_ref == Div(planck(wav_ref, Teq(row)), planck(wav_ref, row.TEFF))
        fratio_ref == Mul(bratio_ref,
                          Pow(Div(Mul(row.R, Fin(RJUP)), Mul(row.RSTAR, Fin(RSUN))), 2))
        kratio_ref == Div(planck(wav_ref, row.TEFF), planck(Fin(W22), row.TEFF))
        mag_ref == MagMinus(row.KS, Log10x2p5(kratio_ref))
        flux_ref == FluxOfMag(mag_ref)
    IN  Mul(Sqrt(flux_ref), fratio_ref)

\* the lines written after the header: for j in range( nplanets ), until
\* s[j] raises IndexError
Written(nplanets, t, s, snr_norm, snr_norm_ir) ==
    [j \in 1..(IF Len(s) < nplanets THEN Len(s) ELSE nplanets) |->
        [rank |-> j, NAME |-> t[s[j]].NAME, snr_norm |-> snr_norm[s[j]],
         snr_norm_ir |-> IF snr_norm_ir = <<>> THEN NaN ELSE snr_norm_ir[s[j]]]]

RowEvents(k) == [j \in 1..k |-> "row"]

NoRun ==
    [fn |-> "none", args |-> [obj_ref |-> "absent"], log |-> <<>>, outcome |-> "none",
     t |-> <<>>, MPLANET |-> <<>>, raw |-> <<>>, raw_ir |-> <<>>, ref |-> <<>>,
     ref_ir |-> <<>>, norm |-> <<>>, norm_ir |-> <<>>, written |-> <<>>,
     retracted |-> 0]

\* how many rows fewer than the cached table the table read has (for the
\* record of a run; the program does not compute it)
Retracted(tab) == IF table.exists THEN Len(table.rows) - Len(tab.rows) ELSE 0

\* the catalogue a download leaves in TR_TABLE: any catalogue when there is
\* no cache yet, a snapshot of the cached one later
Fresh(universe) == IF table.exists THEN Snapshots(table) ELSE universe

\* one caller: after its first call it repeats the call with the same
\* wavelengths and reference (download_latest is free at every call)
SameCall(fn, a) ==
    \/ res.fn = "none"
    \/ /\ res.fn = fn
       /\ [res.args EXCEPT !.download_latest = a.download_latest] = a

\* emission( wav, wav_ref, obj_ref, outfile, download_latest ).  The arrays
\* are bound once each, in the order the code computes them.
emission(wav, wav_ref, obj_ref, download_latest) ==
    LET args == [wav |-> wav, wav_ref |-> wav_ref, obj_ref |-> obj_ref,
                 download_latest |-> download_latest]
    IN
    /\ SameCall("emission", args)
    /\ \E fresh \in (IF NeedsDownload(download_latest) THEN Fresh(Catalogs) ELSE {table}) :
       \E tab \in {TableRead(download_latest, fresh)} :
       \E t \in {Filtered(tab, "emission")} :
       \E raw \in {[i \in 1..Len(t) |-> snr_unnorm(t[i], Metres(wav))]} :
       \E refrows \in {RefRows(t, obj_ref)} :
       \E ref \in {[i \in 1..Len(refrows) |-> snr_ref(refrows[i], Metres(wav_ref))]} :
         LET nplanets == Len(t)
             run == [NoRun EXCEPT !.fn = "emission", !.args = args, !.t = t,
                                  !.raw = raw, !.ref = ref,
                                  !.retracted = Retracted(tab)]
         IN
         /\ table' = tab
         /\ IF ~Broadcasts(nplanets, Len(ref))
            THEN \* snr_unnorm / snr_ref raises ValueError
                 /\ res' = [run EXCEPT !.log = FilterLog(download_latest),
                                       !.outcome = "ValueError"]
                 /\ ofile' = ofile
            ELSE \E snr_norm \in {ArrayDiv(raw, ref)} :
                 \E s0 \in Argsorts(snr_norm) :
                 \E lines \in {Written(nplanets, t, Reversed(s0), snr_norm, <<>>)} :
                   LET done == Len(lines) = nplanets
                   IN
                   /\ ofile' = [exists |-> TRUE, closed |-> done,
                                header |-> <<nplanets, obj_ref>>, lines |-> lines]
                   /\ res' = [run EXCEPT
                                !.norm = snr_norm,
                                !.written = lines,
                                !.outcome = IF done THEN "ok" ELSE "IndexError",
                                !.log = FilterLog(download_latest)
                                        \o <<"open", "header">>
                                        \o RowEvents(Len(lines))
                                        \o (IF done THEN <<"close">> ELSE <<>>)]

---------------------------------------------------------------------------
(* transmission                                                             *)

\* n = 1 scale height
n == 0

\* MPLANET[i]: t.MASS[i], or t.MSINI[i] when reading t.MASS raises
MPLANET(tab, row) == IF tab.MASScol THEN row.MASS ELSE row.MSINI

\* little_g of one row, line 149
little_g(row, M) ==
    Div(Mul(Mul(Fin(G), M), Fin(MJUP)), Pow(Mul(row.R, Fin(RJUP)), 2))

\* Hatm of one row, line 153
Hatm(row, M) == Div(Div(Mul(Fin(RGAS), Teq(row)), Fin(MUJUP)), little_g(row, M))

\* delta_tr of one row, line 160
delta_tr(row, M) ==
    Div(Mul(Mul(Mul(Fin(TWO), Fin(n)), Mul(row.R, Fin(RJUP))), Hatm(row, M)),
        Pow(Mul(row.RSTAR, Fin(RSUN)), 2))

\* snr_unnorm_vis of one row: lines 165-168, redone from V by lines 179-182
\* for a row without a finite KS
snr_unnorm_vis(row, M, wav_vis) ==
    IF isfinite(row.KS)
    THEN LET bratio == Div(planck(wav_vis, row.TEFF), planck(Fin(W22), row.TEFF))
             mag == MagMinus(row.KS, Log10x2p5(bratio))
             flux_unnorm == FluxOfMag(mag)
         IN  Mul(Sqrt(flux_unnorm), delta_tr(row, M))
    ELSE LET bratio == Div(planck(wav_vis, row.TEFF), planck(Fin(W06), row.TEFF))
             mag == MagMinus(row.V, Log10x2p5(bratio))
             flux_unnorm == FluxOfMag(mag)
         IN  Mul(Sqrt(flux_unnorm), delta_tr(row, M))

\* snr_unnorm_ir of one row: lines 170-173, redone by lines 184-187 (from
\* KS again) for a row without a finite KS
snr_unnorm_ir(row, M, wav_ir) ==
    IF isfinite(row.KS)
    THEN LET bratio == Div(planck(wav_ir, row.TEFF), planck(Fin(W22), row.TEFF))
             mag == MagMinus(row.KS, Log10x2p5(bratio))
             flux_unnorm == FluxOfMag(mag)
         IN  Mul(Sqrt(flux_unnorm), delta_tr(row, M))
    ELSE LET bratio == Div(planck(wav_ir, row.TEFF), planck(Fin(W22), row.TEFF))
             mag == MagMinus(row.KS, Log10x2p5(bratio))
             flux_unnorm == FluxOfMag(mag)
         IN  Mul(Sqrt(flux_unnorm), delta_tr(row, M))

\* delta_tr_ref of a reference row, line 196 (Hatm[ii] is the row's own)
delta_tr_ref(row, M) ==
    Div(Mul(Mul(Mul(Fin(TWO), Fin(n)), Mul(row.R, Fin(RJUP))), Hatm(row, M)),
        Pow(Mul(row.RSTAR, Fin(RSUN)), 2))

\* snr_ref_ir of a reference row, lines 197-201
snr_ref_ir(row, M, wav_ref) ==
    LET kratio_ref == Div(planck(wav_ref, row.TEFF), planck(Fin(W22), row.TEFF))
        mag_ref_ir == MagMinus(row.KS, Log10x2p5(kratio_ref))
        flux_ref_ir == FluxOfMag(mag_ref_ir)
    IN  Mul(Sqrt(flux_ref_ir), delta_tr_ref(row, M))

\* snr_ref_vis of a reference row, lines 197 and 203-205
snr_ref_vis(row, M, wav_ref) ==
    LET kratio_ref == Div(planck(wav_ref, row.TEFF), planck(Fin(W22), row.TEFF))
        mag_ref_vis == MagMinus(row.V, Log10x2p5(kratio_ref))
        flux_ref_vis == FluxOfMag(mag_ref_vis)
    IN  Mul(Sqrt(flux_ref_vis), delta_tr_ref(row, M))

\* a slip: the reference tested for its KS magnitude only
RefCheck_KOnly(refrows) ==
    IF Len(refrows) > 1 THEN "raise"
    ELSE IF Len(refrows) = 1 /\ ~isfinite(refrows[1].KS) THEN "return"
    ELSE "go"

\* the test of line 133 on the reference rows: "raise" when the mask selects
\* several rows (the truth value of an array is ambiguous), else whether
\* the function returns None; an empty selection is falsy
RefCheck(refrows) ==
    IF Len(refrows) > 1 THEN "raise"
    ELSE IF Len(refrows) = 1
            /\ (~isfinite(refrows[1].KS) \/ ~isfinite(refrows[1].V)) THEN "return"
    ELSE "go"

\* transmission( wav_vis, wav_ir, wav_ref, obj_ref, outfile, download_latest )
transmission(wav_vis, wav_ir, wav_ref, obj_ref, download_latest) ==
    LET args == [wav_vis |-> wav_vis, wav_ir |-> wav_ir, wav_ref |-> wav_ref,
                 obj_ref |-> obj_ref, download_latest |-> download_latest]
    IN
    /\ SameCall("transmission", args)
    /\ \E fresh \in (IF NeedsDownload(download_latest) THEN Fresh(Catalogs) ELSE {table}) :
       \E tab \in {TableRead(download_latest, fresh)} :
       \E t \in {Filtered(tab, "transmission")} :
       \E refrows \in {RefRows(t, obj_ref)} :
         LET nplanets == Len(t)
             run == [NoRun EXCEPT !.fn = "transmission", !.args = args, !.t = t,
                                  !.log = FilterLog(download_latest),
                                  !.retracted = Retracted(tab)]
         IN
         /\ table' = tab
         /\ IF RefCheck(refrows) # "go"
            THEN /\ res' = [run EXCEPT !.outcome = IF RefCheck(refrows) = "return"
                                                   THEN "None" ELSE "ValueError"]
                 /\ ofile' = ofile
            ELSE
              \E M \in {[i \in 1..nplanets |-> MPLANET(tab, t[i])]} :
              \E vis \in {[i \in 1..nplanets |->
                              snr_unnorm_vis(t[i], M[i], Metres(wav_vis))]} :
              \E ir \in {[i \in 1..nplanets |->
                              snr_unnorm_ir(t[i], M[i], Metres(wav_ir))]} :
              \E Mref \in {[i \in 1..Len(refrows) |-> MPLANET(tab, refrows[i])]} :
              \E ref_vis \in {[i \in 1..Len(refrows) |->
                              snr_ref_vis(refrows[i], Mref[i], Metres(wav_ref))]} :
              \E ref_ir \in {[i \in 1..Len(refrows) |->
                              snr_ref_ir(refrows[i], Mref[i], Metres(wav_ref))]} :
                LET run2 == [run EXCEPT !.MPLANET = M, !.raw = vis, !.raw_ir = ir,
                                        !.ref = ref_vis, !.ref_ir = ref_ir]
                IN
                IF ~Broadcasts(nplanets, Len(refrows))
                THEN \* snr_unnorm_vis / snr_ref_vis raises ValueError
                     /\ res' = [run2 EXCEPT !.outcome = "ValueError"]
                     /\ ofile' = ofile
                ELSE \E snr_norm_vis \in {ArrayDiv(vis, ref_vis)} :
                     \E snr_norm_ir \in {ArrayDiv(ir, ref_ir)} :
                     \E s0 \in Argsorts(snr_norm_vis) :
                     \E lines \in {Written(nplanets, t, Reversed(s0),
                                           snr_norm_vis, snr_norm_ir)} :
                       LET done == Len(lines) = nplanets
                       IN
                       /\ ofile' = [exists |-> TRUE, closed |-> done,
                                    header |-> <<nplanets, obj_ref>>, lines |-> lines]
                       /\ res' = [run2 EXCEPT
                                    !.norm = snr_norm_vis,
                                    !.norm_ir = snr_norm_ir,
                                    !.written = lines,
                                    !.outcome = IF done THEN "ok" ELSE "IndexError",
                                    !.log = FilterLog(download_latest)
                                            \o <<"open", "header">>
                                            \o RowEvents(Len(lines))
                                            \o (IF done THEN <<"close">> ELSE <<>>)]

---------------------------------------------------------------------------
(* filter_table called on its own                                           *)

\* filter_table( sigtype, download_latest ); sigtype defaults to None
filter_table(sigtype, download_latest) ==
    LET args == [sigtype |-> sigtype, download_latest |-> download_latest]
    IN
    /\ SameCall("filter_table", args)
    /\ \E fresh \in (IF NeedsDownload(download_latest) THEN Fresh(FilterCatalogs)
                     ELSE {table}) :
       \E tab \in {TableRead(download_latest, fresh)} :
         /\ table' = tab
         /\ ofile' = ofile
         /\ res' = [NoRun EXCEPT !.fn = "filter_table", !.args = args,
                                 !.t = Filtered(tab, sigtype),
                                 !.log = FilterLog(download_latest),
                                 !.outcome = "ok",
                                 !.retracted = Retracted(tab)]

---------------------------------------------------------------------------
(* The program: no cache, no output file, nothing called yet                *)

Init ==
    /\ table = NoFile
    /\ ofile = [exists |-> FALSE, closed |-> TRUE, header |-> <<0, "absent">>,
                lines |-> <<>>]
    /\ res = NoRun

Next ==
    \/ \E wav \in Wavs, wav_ref \in Wavs, obj_ref \in Names, download_latest \in BOOLEAN :
          emission(wav, wav_ref, obj_ref, download_latest)
    \/ \E wav_vis \in Wavs, wav_ir \in Wavs, wav_ref \in Wavs, obj_ref \in Names,
          download_latest \in BOOLEAN :
          transmission(wav_vis, wav_ir, wav_ref, obj_ref, download_latest)

Spec == Init /\ [][Next]_vars

\* the filter alone, on catalogues drawn from FilterRows
NextFilter ==
    \E sigtype \in {"emission", "transmission", "None"}, download_latest \in BOOLEAN :
        filter_table(sigtype, download_latest)

SpecFilter == Init /\ [][NextFilter]_vars

---------------------------------------------------------------------------
(* Properties                                                               *)

Ran == res.fn \in {"emission", "transmission"}

\* the positions of the reference row in the filtered table of the run
RefIdx == {i \in 1..Len(res.t) : res.t[i].NAME = res.args.obj_ref}

One == Fin(0)

Has(log, ev) == \E i \in 1..Len(log) : log[i] = ev

Failed == res.outcome \in {"None", "ValueError", "IndexError"}

\* a >= b on doubles: False when either is nan
Geq(a, b) == a.k # "nan" /\ b.k # "nan" /\ ~SortsBefore(a, b)

\* C1: in every run that writes its table, the normalized scores of the
\* reference row are exactly 1.0: the emission S/N, the visible and the
\* infrared transmission S/N, whatever the wavelengths.
C1_ReferenceScoreIsOne ==
    (Ran /\ res.outcome = "ok") =>
        \A i \in RefIdx :
            /\ res.norm[i] = One
            /\ res.fn = "transmission" => res.norm_ir[i] = One

\* C1 amended: in a run that writes its table, the reference row's emission
\* S/N is exactly 1.0 when wav = wav_ref, and its infrared transmission S/N
\* when wav_ir = wav_ref, provided its raw score is finite and not zero; its
\* visible transmission S/N is 1.0 only when its raw score at wav_vis equals
\* the V-band reference score it is divided by.
C1_ReferenceScoreIsOneAtRefWavelength ==
    (Ran /\ res.outcome = "ok") =>
        \A i \in RefIdx :
            /\ (res.fn = "emission" /\ res.args.wav = res.args.wav_ref
                    /\ res.raw[i].k = "fin") => res.norm[i] = One
            /\ (res.fn = "transmission" /\ res.args.wav_ir = res.args.wav_ref
                    /\ res.raw_ir[i].k = "fin") => res.norm_ir[i] = One
            /\ (res.fn = "transmission" /\ res.raw[i].k = "fin")
                    => (res.norm[i] = One <=> res.raw[i] = res.ref[1])

\* C1 witness: a transmission run with wav_vis = wav_ir = wav_ref has written
\* several rows, the reference row with an infrared S/N of 1.0 and a visible
\* S/N that is not 1.0.
C1_Witness ==
    /\ res.fn = "transmission" /\ res.outcome = "ok" /\ Len(res.t) >= 2
    /\ res.args.wav_ir = res.args.wav_ref /\ res.args.wav_vis = res.args.wav_ref
    /\ \E i \in RefIdx : res.norm_ir[i] = One /\ res.norm[i].k = "fin"
                            /\ res.norm[i] # One

\* the rows the claim C2 requires of filter_table: every required field
\* defined (finite)
RequiredDefined(row, sigtype) ==
    /\ isfinite(row.RSTAR) /\ isfinite(row.R) /\ isfinite(row.A) /\ isfinite(row.TEFF)
    /\ sigtype = "emission" => isfinite(row.KS)
    /\ sigtype = "transmission" =>
          /\ isfinite(row.KS) \/ isfinite(row.V)
          /\ isfinite(row.MASS) \/ isfinite(row.MSINI)

\* the same with a mass that is finite and positive
RequiredUsable(row, sigtype) ==
    /\ isfinite(row.RSTAR) /\ isfinite(row.R) /\ isfinite(row.A) /\ isfinite(row.TEFF)
    /\ sigtype = "emission" => isfinite(row.KS)
    /\ sigtype = "transmission" =>
          /\ isfinite(row.KS) \/ isfinite(row.V)
          /\ \/ isfinite(row.MASS) /\ gt0(row.MASS)
             \/ isfinite(row.MSINI) /\ gt0(row.MSINI)

FilterCalled == res.fn = "filter_table" /\ res.args.sigtype \in {"emission", "transmission"}

\* C2 as stated: filter_table returns exactly the rows of the table with
\* every required field defined, each once and in catalogue order.
C2_FilterKeepsDefinedRows ==
    FilterCalled =>
        res.t = SelectSeq(table.rows, LAMBDA row : RequiredDefined(row, res.args.sigtype))

\* C2 amended: filter_table returns exactly the rows of the table with
\* RSTAR, R, A, TEFF finite, KS finite (emission) or KS or V finite
\* (transmission), and for transmission MASS or MSINI finite and positive,
\* each once and in catalogue order.
C2_FilterKeepsUsableRows ==
    FilterCalled =>
        res.t = SelectSeq(table.rows, LAMBDA row : RequiredUsable(row, res.args.sigtype))

\* C2 witness: a transmission filter has dropped a row for its mass alone
\* and a row for a missing required field, and kept a row.
C2_Witness ==
    /\ FilterCalled /\ res.args.sigtype = "transmission"
    /\ Len(table.rows) = 2 /\ Len(res.t) = 1
    /\ res.t[1].NAME = "p2"
    /\ ~isfinite(table.rows[1].MSINI) /\ table.rows[1].MASS = Zero

\* C3: the lines written are a permutation of the filtered rows, carry the
\* ranks 1..N in the order written and are in non-increasing order of the
\* key (the normalized S/N; for transmission the visible one).
C3_RankedDescending ==
    (Ran /\ res.outcome = "ok") =>
        /\ Len(res.written) = Len(res.t)
        /\ \A i \in 1..Len(res.t) :
             Cardinality({j \in 1..Len(res.written) :
                            res.written[j].NAME = res.t[i].NAME}) = 1
        /\ \A j \in 1..Len(res.written) : res.written[j].rank = j
        /\ \A j \in 1..(Len(res.written) - 1) :
             Geq(res.written[j].snr_norm, res.written[j + 1].snr_norm)

\* the rank written for the row at position i of the filtered table
RankOf(i) == CHOOSE j \in 1..Len(res.written) : res.written[j].NAME = res.t[i].NAME

\* C4: of two filtered rows with equal key, the earlier in catalogue order
\* gets the smaller rank.
C4_TiesInCatalogOrder ==
    (Ran /\ res.outcome = "ok") =>
        \A i, j \in 1..Len(res.t) :
            (i < j /\ res.norm[i] = res.norm[j] /\ res.norm[i].k # "nan")
                => RankOf(i) < RankOf(j)

\* C5: a run whose obj_ref names no filtered row fails and neither creates
\* nor writes the output file.
C5_MissingReferenceFails ==
    (Ran /\ RefIdx = {}) => (Failed /\ ~Has(res.log, "open"))

\* C6: a run whose filter leaves no row fails and writes nothing: the
\* output file is not opened, no header written.
C6_EmptyCatalogFails ==
    (Ran /\ Len(res.t) = 0) =>
        (Failed /\ ~Has(res.log, "open") /\ ~Has(res.log, "header"))

\* the reference row's raw score is zero or not finite
DegenerateRef == \E i \in 1..Len(res.ref) : res.ref[i].k # "fin"

DegenerateRefIr == \E i \in 1..Len(res.ref_ir) : res.ref_ir[i].k # "fin"

\* C7: a run whose reference raw score is zero or not finite fails instead
\* of dividing by it, and produces no output file.
C7_DegenerateReferenceFails ==
    (Ran /\ (DegenerateRef \/ DegenerateRefIr)) => (Failed /\ ~Has(res.log, "open"))

Position(log, ev) == CHOOSE i \in 1..Len(log) : log[i] = ev

\* C8: a call downloads the catalogue if and only if no cache file exists or
\* download_latest is requested; without a download the cached copy is the
\* table read; the download, if any, comes before the read.
C8_DownloadIffNeeded ==
    [][ /\ Has(res'.log, "read")
        /\ Has(res'.log, "download") <=> (~table.exists \/ res'.args.download_latest)
        /\ Has(res'.log, "download") =>
              Position(res'.log, "download") < Position(res'.log, "read")
        /\ ~Has(res'.log, "download") => table' = table
      ]_vars

\* C8 witness: a call with download_latest false found the cache and read it
\* without a download.
C8_Witness ==
    Ran /\ ~res.args.download_latest /\ ~Has(res.log, "download") /\ Has(res.log, "read")

\* the score of row i in a sequence of scores, "absent" when not computed
ScoreAt(scores, i) == IF i <= Len(scores) THEN scores[i] ELSE [k |-> "absent", e |-> 0]

\* C9: of two consecutive runs with the same function, wavelengths and
\* reference, the second on the catalogue of the first less one row that is
\* not the reference row: every row in both has the same raw and the same
\* normalized scores in both (the reference row among them).
C9_RemovalIsLocal ==
    [][ ( /\ Ran /\ res'.fn = res.fn
          /\ [res'.args EXCEPT !.download_latest = TRUE]
               = [res.args EXCEPT !.download_latest = TRUE]
          /\ table'.MASScol = table.MASScol
          /\ \E i \in 1..Len(table.rows) :
                /\ table'.rows = RemoveAt(table.rows, i)
                /\ table.rows[i].NAME # res.args.obj_ref )
        => \A a \in 1..Len(res.t), b \in 1..Len(res'.t) :
              res.t[a].NAME = res'.t[b].NAME =>
                 /\ ScoreAt(res.raw, a) = ScoreAt(res'.raw, b)
                 /\ ScoreAt(res.raw_ir, a) = ScoreAt(res'.raw_ir, b)
                 /\ ScoreAt(res.norm, a) = ScoreAt(res'.norm, b)
                 /\ ScoreAt(res.norm_ir, a) = ScoreAt(res'.norm_ir, b)
      ]_vars

\* C9 witness: a run has written the reference row and another row from a
\* download that came with one row fewer than the cache of the run before.
C9_Witness ==
    /\ Ran /\ res.outcome = "ok" /\ res.retracted = 1
    /\ RefIdx # {} /\ Len(res.t) >= 2
    /\ \A i \in 1..Len(res.norm) : res.norm[i].k = "fin"

\* C10: the mass transmission() computes the gravity from is MASS when MASS
\* is defined and MSINI otherwise, and so is always a defined value.
C10_MassFallsBackToMsini ==
    (res.fn = "transmission" /\ Len(res.MPLANET) = Len(res.t)) =>
        \A i \in 1..Len(res.t) :
            /\ res.MPLANET[i] = IF isfinite(res.t[i].MASS) THEN res.t[i].MASS
                                ELSE res.t[i].MSINI
            /\ isfinite(res.MPLANET[i])

\* the raw transmission score of a row at wavelength wav (metres) from the
\* magnitude mag known at the wavelength wav0 (metres)
ScoreFromMag(row, M, wav, mag, wav0) ==
    LET bratio == Div(planck(wav, row.TEFF), planck(wav0, row.TEFF))
        flux_unnorm == FluxOfMag(MagMinus(mag, Log10x2p5(bratio)))
    IN  Mul(Sqrt(flux_unnorm), delta_tr(row, M))

\* the raw score C11 requires: from KS (known at 2.2 micron) when KS is
\* defined, from V (known at 0.6 micron) otherwise
ScoreKorV(row, M, wav) ==
    IF isfinite(row.KS) THEN ScoreFromMag(row, M, wav, row.KS, Fin(W22))
    ELSE ScoreFromMag(row, M, wav, row.V, Fin(W06))

\* C11: in a transmission() run that writes its table, the raw score of
\* every filtered row, at the visible and at the infrared wavelength alike,
\* is the one computed from KS when KS is defined and from V with the
\* 0.6 micron reference wavelength when it is not.
C11_MagnitudeFallsBackToV ==
    (res.fn = "transmission" /\ res.outcome = "ok") =>
        \A i \in 1..Len(res.t) :
            /\ res.raw[i] = ScoreKorV(res.t[i], res.MPLANET[i], Metres(res.args.wav_vis))
            /\ res.raw_ir[i] = ScoreKorV(res.t[i], res.MPLANET[i], Metres(res.args.wav_ir))

\* the reference row of the run just made is in the filtered table without
\* a defined KS or without a defined V
RefLacksKorV(r) ==
    \E i \in 1..Len(r.t) :
        /\ r.t[i].NAME = r.args.obj_ref
        /\ ~isfinite(r.t[i].KS) \/ ~isfinite(r.t[i].V)

\* C12: a transmission() run whose reference row is in the filtered table
\* without a defined KS or V ends right after the filter: the table read is
\* the last thing it does, it returns None, no mass, raw score, reference
\* score or normalized score is computed, no line is written and the
\* output file is left as it was.
C12_ReferenceWithoutKorVAborts ==
    [][ (res'.fn = "transmission" /\ RefLacksKorV(res')) =>
            /\ res'.outcome = "None"
            /\ res'.log = FilterLog(res'.args.download_latest)
            /\ res'.MPLANET = <<>> /\ res'.raw = <<>> /\ res'.raw_ir = <<>>
            /\ res'.ref = <<>> /\ res'.ref_ir = <<>>
            /\ res'.norm = <<>> /\ res'.norm_ir = <<>> /\ res'.written = <<>>
            /\ ofile' = ofile
      ]_vars

\* C12 witness: a transmission() run has returned None on a filtered table
\* of several rows whose reference row has V but no KS.
C12_Witness ==
    /\ res.fn = "transmission" /\ res.outcome = "None" /\ Len(res.t) >= 2
    /\ \E i \in RefIdx : ~isfinite(res.t[i].KS) /\ isfinite(res.t[i].V)
    /\ Has(res.log, "read") /\ ~ofile.exists

\* C13: in an emission() run whose obj_ref names exactly one filtered row,
\* the divisor snr_ref is that row's raw score at wav_ref and every row's
\* normalized score is its raw score divided by it; when wav = wav_ref and
\* the reference row's raw score is finite and not zero, the divisor is the
\* row's own entry of snr_unnorm and its normalized score is 1.
C13_DivisorIsReferenceRawScore ==
    (res.fn = "emission" /\ Cardinality(RefIdx) = 1) =>
        \A i \in RefIdx :
            /\ res.ref = <<snr_unnorm(res.t[i], Metres(res.args.wav_ref))>>
            /\ Len(res.norm) = Len(res.t)
            /\ \A j \in 1..Len(res.t) :
                  res.norm[j] = Div(res.raw[j],
                                    snr_unnorm(res.t[i], Metres(res.args.wav_ref)))
            /\ (res.args.wav = res.args.wav_ref /\ res.raw[i].k = "fin") =>
                  /\ res.ref = <<res.raw[i]>>
                  /\ res.norm[i] = One
                  /\ \A j \in 1..Len(res.t) :
                        res.norm[j] = Div(res.raw[j], res.raw[i])

\* C13 witness: an emission() run with wav = wav_ref has written the
\* reference row with the score 1 and another row with a finite score that
\* is not 1.
C13_Witness ==
    /\ res.fn = "emission" /\ res.outcome = "ok"
    /\ res.args.wav = res.args.wav_ref
    /\ \E i \in RefIdx : res.raw[i].k = "fin" /\ res.norm[i] = One
    /\ \E j \in 1..Len(res.t) :
          j \notin RefIdx /\ res.norm[j].k = "fin" /\ res.norm[j] # One

====
